---- MODULE Spec2Model ----
(***************************************************************************)
(* The OCR service of PaddleOCRTesting: the Flask front end (app.py) and   *)
(* the Discord front end (discord_bot.py).  Each is a process of its own   *)
(* with its own engine handle `ocr`, its own `ocr_lock` and its own        *)
(* periodic reclamation loop; `module` says which of the two processes a   *)
(* behaviour is a run of.                                                  *)
(*                                                                         *)
(* app.py runs its handlers on preemptive threads (threaded=True), so the  *)
(* steps of different requests interleave freely.  discord_bot.py runs its *)
(* handlers as coroutines of one event loop: `running` is the coroutine    *)
(* that owns the loop, and it gives the loop up only at an await.          *)
(***************************************************************************)
EXTENDS Integers, Sequences, FiniteSets

\* Request threads of app.py that are at work at once.  A thread that has
\* finished a request takes the next one.
NumThreads == 2
\* runocr invocations of discord_bot.py that are in progress at once.
NumTasks == 1
\* Longest list of detections the engine returns for one image.
MaxLines == 2
\* Cap on the periodic_cleanup tasks alive at once in the bot (on_ready fires
\* again on every reconnect).
MaxLoops == 2
\* Widest and tallest image crop_image_to_target_region is applied to.
MaxWidth == 1072
MaxHeight == 104
\* Longest text of one detection the formatting of runocr is applied to.
MaxTextLen == 5000

Slots == 1..(IF NumThreads > NumTasks THEN NumThreads ELSE NumTasks)

VARIABLES
    module,        \* "app" | "bot": the process this behaviour is a run of
    pc,            \* pc[r]: where request r is in its handler
    route,         \* route[r]: "ocr" (POST /ocr), "demo" (GET /ocr-demo), "runocr"
    body,          \* body[r]: what the handler found its request (its download) to hold
    ocr_lock,      \* 0 when unlocked, else the request holding it
    result,        \* result[r]: the handler's local `result`, the raw engine output
    text_results,  \* text_results[r]: the handler's local `text_results`
    exc,           \* exc[r]: the exception the handler is unwinding with ("none" if none)
    reply,         \* reply[r]: what the handler hands to its caller
    temp_image,    \* app.py: the fixed file /tmp/temp_image.png: whether it exists,
                   \*   and the request in progress whose image it holds (0: none's)
    wrote,         \* wrote[r]: request r has written /tmp/temp_image.png
    removes,       \* removes[r]: how many times request r has removed it
    running,       \* bot: the coroutine that owns the event loop (0: the loop is idle)
    tmpfiles,      \* bot: tmpfiles[r]: files on disk that the request in slot r created
    crop_paths,    \* bot: crop_paths[r]: what cropped_path and visual_path name
    ocr_result,    \* bot: ocr_result[r]: the dict perform_ocr_on_file returned to runocr
    delivered,     \* bot: delivered[r]: a followup.send of the request reached the caller
    cleanup_ran,   \* bot: cleanup_ran[r]: the finally block of runocr has run
    image_size,    \* bot: image_size[r]: <<img_width, img_height>> of the download
    crop_coords,   \* bot: crop_coords[r]: what crop_image_to_target_region returned
    crop_error,    \* bot: crop_error[r]: the statement of the crop that raised
    text_content,  \* bot: text_content[r]: the text runocr put into its embed
    stats,         \* bot: stats[r]: the Stats field runocr put into its embed
    loops          \* periodic_cleanup loops (threads, tasks) that are alive

vars == <<module, pc, route, body, ocr_lock, result, text_results, exc, reply,
          temp_image, wrote, removes, running, tmpfiles, crop_paths, ocr_result,
          delivered, cleanup_ran, image_size, crop_coords, crop_error,
          text_content, stats, loops>>

appvars == <<temp_image, wrote, removes>>
cropvars == <<image_size, crop_coords, crop_error>>
embedvars == <<text_content, stats>>
botvars == <<running, tmpfiles, crop_paths, ocr_result, delivered, cleanup_ran,
             cropvars, embedvars>>
loopvars == <<loops>>

\* The requests of the process that is running.
Reqs == IF module = "app" THEN 1..NumThreads ELSE 1..NumTasks

----------------------------------------------------------------------------
(* The engine's output and its normalisation.                              *)

\* One detection as the engine hands it over.  `len` is the number of elements
\* of the line (0: an empty or None line), `snd` says what its second element
\* is: a (text, confidence) pair, or something that cannot be indexed as one.
\* A text is the sequence of its characters, written as its runs of equal
\* characters: [c |-> the character, n |-> how many times it is repeated].  A
\* confidence is a percentage.
Run(c, n) == [c |-> c, n |-> n]
GoodLine  == [len |-> 2, snd |-> "pair",   text |-> <<Run("A", 1)>>, conf |-> 90]
ExtraLine == [len |-> 3, snd |-> "pair",   text |-> <<Run("A", 1)>>, conf |-> 90]
BadLine   == [len |-> 2, snd |-> "scalar", text |-> <<>>,    conf |-> 0]
ShortLine == [len |-> 1, snd |-> "absent", text |-> <<>>,    conf |-> 0]
EmptyLine == [len |-> 0, snd |-> "absent", text |-> <<>>,    conf |-> 0]

Lines == {GoodLine, ExtraLine, BadLine, ShortLine, EmptyLine}

SeqsUpTo(S, n) == UNION {[1..k -> S] : k \in 0..n}

\* What ocr.ocr(path, cls=False) returns: None / [None] when nothing was
\* detected ("none"), or one page of detections ("page").
NoResult == [kind |-> "unset", lines |-> <<>>]
EngineResults ==
    {[kind |-> "none", lines |-> <<>>]}
        \cup {[kind |-> "page", lines |-> s] : s \in SeqsUpTo(Lines, MaxLines)}

\* `if result and result[0]`
HasPage(res) == res.kind = "page" /\ res.lines # <<>>

\* `if line and len(line) >= 2`
PassesGuard(line) == line.len # 0 /\ line.len >= 2

\* line[1][0], float(line[1][1]) raise unless line[1] is a pair.
EntryRaises(line) == line.snd # "pair"

\* The loop over result[0] raises at the first guarded line it cannot index.
FormatRaises(res) ==
    HasPage(res) /\ \E i \in 1..Len(res.lines) :
                        PassesGuard(res.lines[i]) /\ EntryRaises(res.lines[i])

Entry(line) == [text |-> line.text, confidence |-> line.conf]

RECURSIVE Entries(_)
Entries(ls) ==
    IF ls = <<>> THEN <<>>
    ELSE IF PassesGuard(Head(ls)) THEN <<Entry(Head(ls))>> \o Entries(Tail(ls))
    ELSE Entries(Tail(ls))

\* text_results after the loop, when it did not raise.
FormatResults(res) == IF HasPage(res) THEN Entries(res.lines) ELSE <<>>

----------------------------------------------------------------------------
(* The execution slot.                                                     *)

\* (mutant) a handler that does not wait for the lock.
CanAcquireAlways(lock) == TRUE

\* threading.Lock.acquire succeeds only on an unlocked lock.
CanAcquire(lock) == lock = 0

\* (mutant) acquire()/release() by hand, the release skipped by an exception.
WithExitOnReturnOnly(lock, r, how) ==
    IF lock = r /\ how = "return" THEN 0 ELSE lock

\* Leaving `with ocr_lock:` releases the lock, whether the block is left by
\* a return ("return") or by an exception ("raise").
WithExit(lock, r, how) == IF lock = r THEN 0 ELSE lock

\* (mutant) an except clause too narrow for what the engine raises.
CaughtNotEngine(cause) == cause \in {"format", "decode", "send"}

\* `except Exception as e` catches whatever the block raised.
Caught(cause) == cause \in {"engine", "format", "decode", "send"}


\* The dict perform_ocr_on_file returns: on success it names the cropped file
\* and the visualization ("temp": both are the downloaded file itself,
\* "derived": files of their own); on failure it has no path keys ("absent").
NoOcrResult == [success |-> FALSE, error |-> FALSE, paths |-> "none"]

\* /tmp/temp_image.png is not there.
NoTempImage == [present |-> FALSE, of |-> 0]

\* What a POST /ocr body holds: an image_path that exists, one that does not,
\* a base64 image, base64 that does not decode to an image, neither key.
OcrBodies == {"path", "missing", "b64", "undecodable", "nokey"}

----------------------------------------------------------------------------
(* The crop region (crop_image_to_target_region).                          *)

\* The fixed coordinates of the target region.
start_x == 576
start_y == 100
end_x == 1068

Min(a, b) == IF a < b THEN a ELSE b
Max(a, b) == IF a > b THEN a ELSE b

\* (mutant) a coordinate kept from going negative only.
ClampLow(v, dim) == Max(0, v)

\* max(0, min(v, dim)): a coordinate brought within [0, dim].
Clamp(v, dim) == Max(0, Min(v, dim))

\* (mutant) the region ends at its top edge instead of the image's bottom.
end_y_top(img_height) == start_y

\* end_y = img_height: the region extends to the full height of the image.
end_y(img_height) == img_height

\* crop_coords = (start_x, start_y, end_x, end_y) after the four clamps.
CropCoords(img_width, img_height) ==
    <<Clamp(start_x, img_width), Clamp(start_y, img_height),
      Clamp(end_x, img_width), Clamp(end_y(img_height), img_height)>>

\* The coordinates returned when cropping fails.
FallbackCoords == <<0, 0, 0, 0>>

\* No crop has been made / no image has been opened.
NoCoords == <<>>
NoSize == <<>>

\* The statement of crop_image_to_target_region that raises: none, Image.open,
\* the drawing of the visualization, cropped_image.save, visual_image.save.
CropErrors == {"none", "open", "draw", "save_cropped", "save_visual"}

\* The files the crop has saved when it ends with `err`.
Saved(err) == IF err = "none" THEN {"cropped", "visual"}
              ELSE IF err = "save_visual" THEN {"cropped"}
              ELSE {}

\* The sizes of the images the /runocr requests download: one wider and
\* taller than the region, one narrower than its right edge, one no taller
\* than its top edge.
ImageSizes == {<<1720, 1080>>, <<800, 600>>, <<1720, 100>>}

\* Every size up to the bounds.
AllSizes == {<<w, h>> : w \in 1..MaxWidth, h \in 1..MaxHeight}

----------------------------------------------------------------------------
(* The formatting of the results for Discord (runocr).                     *)

\* len(text)
RECURSIVE TextLen(_)
TextLen(text) == IF text = <<>> THEN 0 ELSE text[1].n + TextLen(Tail(text))

\* text + other: the runs that meet are one run when of the same character.
Concat(text, other) ==
    IF text = <<>> THEN other
    ELSE IF other = <<>> THEN text
    ELSE IF text[Len(text)].c = other[1].c
      THEN SubSeq(text, 1, Len(text) - 1)
             \o <<Run(other[1].c, text[Len(text)].n + other[1].n)>>
             \o Tail(other)
    ELSE text \o other

\* text[:k]
RECURSIVE Take(_, _)
Take(text, k) ==
    IF k <= 0 \/ text = <<>> THEN <<>>
    ELSE IF text[1].n >= k THEN <<Run(text[1].c, k)>>
    ELSE <<text[1]>> \o Take(Tail(text), k - text[1].n)

\* " ".join([r["text"] for r in text_results])
RECURSIVE FullText(_)
FullText(results) ==
    IF results = <<>> THEN <<>>
    ELSE IF Len(results) = 1 THEN results[1].text
    ELSE Concat(Concat(results[1].text, <<Run(" ", 1)>>), FullText(Tail(results)))

IsSpace(c) == c \in {" ", "\n", "\t"}

RECURSIVE LStrip(_)
LStrip(text) ==
    IF text = <<>> THEN text
    ELSE IF IsSpace(Head(text).c) THEN LStrip(Tail(text))
    ELSE text

RECURSIVE RStrip(_)
RStrip(text) ==
    IF text = <<>> THEN text
    ELSE IF IsSpace(text[Len(text)].c) THEN RStrip(SubSeq(text, 1, Len(text) - 1))
    ELSE text

\* str.strip()
Strip(text) == RStrip(LStrip(text))

\* (mutant) a formatter that never takes the text to be empty.
NoTextNever(text) == FALSE

\* `if not ocr_result["text"].strip()`
NoText(text) == Strip(text) = <<>>

\* The longest text shown in full.
text_limit == 3500

\* "...\n*(text truncated)*"
Marker == <<Run(".", 3), Run("\n", 1), Run("*", 1), Run("(", 1), Run("t", 1),
            Run("e", 1), Run("x", 1), Run("t", 1), Run(" ", 1), Run("t", 1),
            Run("r", 1), Run("u", 1), Run("n", 1), Run("c", 1), Run("a", 1),
            Run("t", 1), Run("e", 1), Run("d", 1), Run(")", 1), Run("*", 1)>>

\* (mutant) the marker appended to every text.
TruncateAlways(text) == Concat(Take(text, text_limit), Marker)

\* if len(text_content) > 3500: text_content = text_content[:3500] + marker
Truncate(text) ==
    IF TextLen(text) > text_limit THEN Concat(Take(text, text_limit), Marker)
    ELSE text

RECURSIVE SumConfidence(_)
SumConfidence(results) ==
    IF results = <<>> THEN 0
    ELSE results[1].confidence + SumConfidence(Tail(results))

\* a / b: the quotient as a fraction, or ZeroDivisionError (`raised`).
Divide(a, b) == [num |-> a, den |-> b, raised |-> b = 0]

\* stats is the list of the Stats fields of the embed: none, or one.
NoStats == <<>>

\* `if ocr_result["results"]:` the Stats field with the number of lines and
\* avg_confidence = sum(confidences) / len(results).
Stats(results) ==
    IF results # <<>>
      THEN <<[lines |-> Len(results),
              avg |-> Divide(SumConfidence(results), Len(results))]>>
      ELSE NoStats

\* The division of the average raised.
Raised(st) == st # NoStats /\ st[1].avg.raised

\* (mutant) the average computed up front, for whatever perform_ocr_on_file
\* returned.
runocr_format_eager(res, results) ==
    [kind |-> "embed", text_content |-> Truncate(FullText(results)),
     stats |-> <<[lines |-> Len(results),
                  avg |-> Divide(SumConfidence(results), Len(results))]>>]

\* What runocr makes of the dict perform_ocr_on_file returned: the failure
\* message, the no-text message, or the embed with the text and the stats.
runocr_format(res, results) ==
    IF ~res.success
      THEN [kind |-> "ocr_failed", text_content |-> <<>>, stats |-> NoStats]
    ELSE IF NoText(FullText(results))
      THEN [kind |-> "no_text", text_content |-> <<>>, stats |-> NoStats]
    ELSE [kind |-> "embed", text_content |-> Truncate(FullText(results)),
          stats |-> Stats(results)]

----------------------------------------------------------------------------
(* Steps common to the handlers.                                           *)

\* The handler returns `kind` from inside `with ocr_lock:`; the request and the
\* handler's locals are gone.
Return(r, kind) ==
    /\ reply' = [reply EXCEPT ![r] = kind]
    /\ ocr_lock' = WithExit(ocr_lock, r, "return")
    /\ pc' = [pc EXCEPT ![r] = "done"]
    /\ route' = [route EXCEPT ![r] = "none"]
    /\ body' = [body EXCEPT ![r] = "none"]
    /\ result' = [result EXCEPT ![r] = NoResult]
    /\ text_results' = [text_results EXCEPT ![r] = <<>>]

\* A statement inside `try: with ocr_lock:` raises: the with block is left,
\* then control reaches the except clause.
Raise(r, cause) ==
    /\ exc' = [exc EXCEPT ![r] = cause]
    /\ ocr_lock' = WithExit(ocr_lock, r, "raise")
    /\ pc' = [pc EXCEPT ![r] = "except"]
    /\ result' = [result EXCEPT ![r] = NoResult]
    /\ text_results' = [text_results EXCEPT ![r] = <<>>]

----------------------------------------------------------------------------
(* app.py: POST /ocr (perform_ocr) and GET /ocr-demo (ocr_demo).           *)

\* A request arrives and its thread reaches `with ocr_lock:`.
AppReceive(r) ==
    /\ module = "app"
    /\ pc[r] = "idle"
    /\ \E rt \in {"ocr", "demo"} : route' = [route EXCEPT ![r] = rt]
    /\ pc' = [pc EXCEPT ![r] = "wait_lock"]
    /\ UNCHANGED <<module, body, ocr_lock, result, text_results, exc, reply,
                   appvars, botvars, loopvars>>

\* `with ocr_lock:` is entered.
AppAcquire(r) ==
    /\ module = "app"
    /\ pc[r] = "wait_lock"
    /\ CanAcquire(ocr_lock)
    /\ ocr_lock' = r
    /\ pc' = [pc EXCEPT ![r] = "locked"]
    /\ UNCHANGED <<module, route, body, result, text_results, exc, reply,
                   appvars, botvars, loopvars>>

\* perform_ocr: data = request.get_json(), and which key it holds.
perform_ocr_read(r) ==
    /\ module = "app"
    /\ pc[r] = "locked"
    /\ route[r] = "ocr"
    /\ \E b \in OcrBodies : body' = [body EXCEPT ![r] = b]
    /\ pc' = [pc EXCEPT ![r] = "materialize"]
    /\ UNCHANGED <<module, route, ocr_lock, result, text_results, exc, reply,
                   appvars, botvars, loopvars>>

\* perform_ocr up to the engine call: the path is checked, or the base64
\* image is decoded and saved to /tmp/temp_image.png.
perform_ocr_materialize(r) ==
    /\ module = "app"
    /\ pc[r] = "materialize"
    /\ \/ /\ body[r] = "missing"
          /\ Return(r, "404")
          /\ UNCHANGED <<exc, appvars>>
       \/ /\ body[r] = "nokey"
          /\ Return(r, "400")
          /\ UNCHANGED <<exc, appvars>>
       \/ /\ body[r] = "undecodable"
          /\ Raise(r, "decode")
          /\ UNCHANGED <<route, body, reply, appvars>>
       \/ /\ body[r] = "path"
          /\ pc' = [pc EXCEPT ![r] = "call_engine"]
          /\ UNCHANGED <<route, body, ocr_lock, result, text_results, exc, reply,
                         appvars>>
       \/ /\ body[r] = "b64"
          /\ temp_image' = [present |-> TRUE, of |-> r]
          /\ wrote' = [wrote EXCEPT ![r] = TRUE]
          /\ pc' = [pc EXCEPT ![r] = "call_engine"]
          /\ UNCHANGED <<route, body, ocr_lock, result, text_results, exc, reply,
                         removes>>
    /\ UNCHANGED <<module, botvars, loopvars>>

\* ocr_demo up to the engine call: test_image.png is there, or it is not.
ocr_demo_materialize(r) ==
    /\ module = "app"
    /\ pc[r] = "locked"
    /\ route[r] = "demo"
    /\ \/ Return(r, "404")
       \/ /\ body' = [body EXCEPT ![r] = "path"]
          /\ pc' = [pc EXCEPT ![r] = "call_engine"]
          /\ UNCHANGED <<route, ocr_lock, result, text_results, reply>>
    /\ UNCHANGED <<module, exc, appvars, botvars, loopvars>>

\* ocr.ocr(...) is entered.
AppEngineCall(r) ==
    /\ module = "app"
    /\ pc[r] = "call_engine"
    /\ pc' = [pc EXCEPT ![r] = "in_engine"]
    /\ UNCHANGED <<module, route, body, ocr_lock, result, text_results, exc,
                   reply, appvars, botvars, loopvars>>

\* ocr.ocr(...) returns, or raises.  What it returned is drawn where the
\* handler first looks at it (AppFormat).
AppEngineReturn(r) ==
    /\ module = "app"
    /\ pc[r] = "in_engine"
    /\ \/ /\ pc' = [pc EXCEPT ![r] = IF body[r] = "b64" THEN "remove_temp"
                                                       ELSE "format"]
          /\ UNCHANGED <<ocr_lock, result, text_results, exc>>
       \/ Raise(r, "engine")
    /\ UNCHANGED <<module, route, body, reply, appvars, botvars, loopvars>>

\* try: os.remove(temp_path) except: pass
RemoveTemp(r) ==
    /\ module = "app"
    /\ pc[r] = "remove_temp"
    /\ IF temp_image.present
         THEN /\ temp_image' = NoTempImage
              /\ removes' = [removes EXCEPT ![r] = @ + 1]
         ELSE UNCHANGED <<temp_image, removes>>
    /\ pc' = [pc EXCEPT ![r] = "format"]
    /\ UNCHANGED <<module, route, body, ocr_lock, result, text_results, exc,
                   reply, wrote, botvars, loopvars>>

\* The loop that builds text_results from `result`, and the response, for an
\* engine output among `outputs`.
AppFormatOf(r, outputs) ==
    /\ module = "app"
    /\ pc[r] = "format"
    /\ \E res \in outputs :
         IF FormatRaises(res)
           THEN Raise(r, "format")
           ELSE /\ result' = [result EXCEPT ![r] = res]
                /\ text_results' = [text_results EXCEPT ![r] = FormatResults(res)]
                /\ pc' = [pc EXCEPT ![r] = "formatted"]
                /\ UNCHANGED <<ocr_lock, exc>>
    /\ UNCHANGED <<module, route, body, reply, appvars, botvars, loopvars>>

AppFormat(r) == AppFormatOf(r, EngineResults)

\* del result; cleanup_memory()
AppCleanup(r) ==
    /\ module = "app"
    /\ pc[r] = "formatted"
    /\ result' = [result EXCEPT ![r] = NoResult]
    /\ pc' = [pc EXCEPT ![r] = "respond"]
    /\ UNCHANGED <<module, route, body, ocr_lock, text_results, exc, reply,
                   appvars, botvars, loopvars>>

\* return jsonify(response)
AppRespond(r) ==
    /\ module = "app"
    /\ pc[r] = "respond"
    /\ Return(r, "200")
    /\ UNCHANGED <<module, exc, appvars, botvars, loopvars>>

\* except Exception as e: cleanup_memory(); ...; return jsonify(error), 500
\* A file the request leaves behind holds the image of no request in progress.
AppExcept(r) ==
    /\ module = "app"
    /\ pc[r] = "except"
    /\ reply' = [reply EXCEPT ![r] = IF Caught(exc[r]) THEN "500" ELSE "uncaught"]
    /\ pc' = [pc EXCEPT ![r] = "done"]
    /\ route' = [route EXCEPT ![r] = "none"]
    /\ body' = [body EXCEPT ![r] = "none"]
    /\ temp_image' = IF temp_image.of = r THEN [temp_image EXCEPT !.of = 0]
                                         ELSE temp_image
    /\ UNCHANGED <<module, ocr_lock, result, text_results, exc, wrote, removes,
                   botvars, loopvars>>

----------------------------------------------------------------------------
(* discord_bot.py: the /runocr command (runocr, download_image,            *)
(* crop_image_to_target_region, perform_ocr_on_file).                      *)

\* temp_path is bound: the handler is inside `try: ... finally:`.
InTry(r) == crop_paths[r] # "none"

\* The files the finally block unlinks: temp_path, and cropped_path and
\* visual_path when ocr_result has those keys and they differ from temp_path.
Unlinked(res) ==
    {"temp"} \cup (IF res.paths = "derived" THEN {"cropped", "visual"} ELSE {})

\* (mutant) the cleanup written after the send instead of in a finally block.
AfterSendNoFinally(r, sent) == IF sent /\ InTry(r) THEN "finally"
                               ELSE IF sent THEN "done" ELSE "send_error"

\* Where the handler goes when its awaited followup.send has ended: inside the
\* try the finally block runs, whether the send returned or raised.
AfterSend(r, sent) == IF InTry(r) THEN "finally"
                      ELSE IF sent THEN "done" ELSE "send_error"

\* The command is invoked: await interaction.response.defer(thinking=True).
runocr_start(r) ==
    /\ module = "bot"
    /\ pc[r] = "idle"
    /\ running = 0
    /\ route' = [route EXCEPT ![r] = "runocr"]
    /\ pc' = [pc EXCEPT ![r] = "resolve"]
    /\ UNCHANGED <<module, body, ocr_lock, result, text_results, exc, reply,
                   appvars, botvars, loopvars>>

\* The image to read: the attachment, else the most recent image of the
\* channel (await find_recent_image).
runocr_source(r) ==
    /\ module = "bot"
    /\ pc[r] = "resolve"
    /\ running = 0
    /\ \/ /\ reply' = [reply EXCEPT ![r] = "not_image"]
          /\ pc' = [pc EXCEPT ![r] = "send"]
       \/ /\ reply' = [reply EXCEPT ![r] = "no_recent"]
          /\ pc' = [pc EXCEPT ![r] = "send"]
       \/ /\ pc' = [pc EXCEPT ![r] = "download"]
          /\ UNCHANGED reply
    /\ UNCHANGED <<module, route, body, ocr_lock, result, text_results, exc,
                   appvars, botvars, loopvars>>

\* temp_path = await download_image(image_url): the status is not 200; or the
\* temporary file is made and writing it fails; or the bytes are written, and
\* are an image or are not.  On success the handler runs on without awaiting.
download_image(r) ==
    /\ module = "bot"
    /\ pc[r] = "download"
    /\ running = 0
    /\ \/ /\ reply' = [reply EXCEPT ![r] = "download_failed"]
          /\ pc' = [pc EXCEPT ![r] = "send"]
          /\ UNCHANGED <<body, running, tmpfiles, image_size>>
       \/ /\ tmpfiles' = [tmpfiles EXCEPT ![r] = {"temp"}]
          /\ reply' = [reply EXCEPT ![r] = "download_failed"]
          /\ pc' = [pc EXCEPT ![r] = "send"]
          /\ UNCHANGED <<body, running, image_size>>
       \/ /\ tmpfiles' = [tmpfiles EXCEPT ![r] = {"temp"}]
          /\ \/ /\ body' = [body EXCEPT ![r] = "undecodable"]
                /\ UNCHANGED image_size
             \/ /\ body' = [body EXCEPT ![r] = "image"]
                /\ \E sz \in ImageSizes :
                      image_size' = [image_size EXCEPT ![r] = sz]
          /\ pc' = [pc EXCEPT ![r] = "crop"]
          /\ running' = r
          /\ UNCHANGED reply
    /\ UNCHANGED <<module, route, ocr_lock, result, text_results, exc, appvars,
                   crop_paths, ocr_result, delivered, cleanup_ran, crop_coords,
                   crop_error, embedvars, loopvars>>

\* crop_image_to_target_region(image_path).  Image.open raises on a file that
\* is no image; on an image the region is computed and cropped, and then the
\* drawing or one of the two saves may raise.  Whatever raises, the except
\* clause returns the original path twice and the fallback coordinates.
crop_image_to_target_region(r) ==
    /\ module = "bot"
    /\ pc[r] = "crop"
    /\ running = r
    /\ \E err \in CropErrors :
         /\ (err = "open") <=> (body[r] = "undecodable")
         /\ crop_error' = [crop_error EXCEPT ![r] = err]
         /\ tmpfiles' = [tmpfiles EXCEPT ![r] = @ \cup Saved(err)]
         /\ crop_paths' = [crop_paths EXCEPT ![r] =
                              IF err = "none" THEN "derived" ELSE "temp"]
         /\ crop_coords' = [crop_coords EXCEPT ![r] =
                               IF err = "none"
                                 THEN CropCoords(image_size[r][1], image_size[r][2])
                                 ELSE FallbackCoords]
    /\ pc' = [pc EXCEPT ![r] = "wait_lock"]
    /\ UNCHANGED <<module, route, body, ocr_lock, result, text_results, exc,
                   reply, appvars, running, ocr_result, delivered, cleanup_ran,
                   image_size, embedvars, loopvars>>

\* perform_ocr_on_file: `with ocr_lock:` is entered.
BotAcquire(r) ==
    /\ module = "bot"
    /\ pc[r] = "wait_lock"
    /\ running = r
    /\ CanAcquire(ocr_lock)
    /\ ocr_lock' = r
    /\ pc' = [pc EXCEPT ![r] = "call_engine"]
    /\ UNCHANGED <<module, route, body, result, text_results, exc, reply,
                   appvars, botvars, loopvars>>

\* ocr.ocr(cropped_path, cls=False) is entered.
BotEngineCall(r) ==
    /\ module = "bot"
    /\ pc[r] = "call_engine"
    /\ running = r
    /\ pc' = [pc EXCEPT ![r] = "in_engine"]
    /\ UNCHANGED <<module, route, body, ocr_lock, result, text_results, exc,
                   reply, appvars, botvars, loopvars>>

\* ocr.ocr(...) returns, or raises.  The size of the image and the way the
\* crop went are not read again.
BotEngineReturn(r) ==
    /\ module = "bot"
    /\ pc[r] = "in_engine"
    /\ running = r
    /\ \/ /\ pc' = [pc EXCEPT ![r] = "format"]
          /\ UNCHANGED <<ocr_lock, result, text_results, exc>>
       \/ Raise(r, "engine")
    /\ image_size' = [image_size EXCEPT ![r] = NoSize]
    /\ crop_error' = [crop_error EXCEPT ![r] = "none"]
    /\ UNCHANGED <<module, route, body, reply, appvars, running, tmpfiles,
                   crop_paths, ocr_result, delivered, cleanup_ran, crop_coords,
                   embedvars, loopvars>>

\* The loop that builds text_results from `result`, and the response, for an
\* engine output among `outputs`.
BotFormatOf(r, outputs) ==
    /\ module = "bot"
    /\ pc[r] = "format"
    /\ running = r
    /\ \E res \in outputs :
         IF FormatRaises(res)
           THEN Raise(r, "format")
           ELSE /\ result' = [result EXCEPT ![r] = res]
                /\ text_results' = [text_results EXCEPT ![r] = FormatResults(res)]
                /\ pc' = [pc EXCEPT ![r] = "formatted"]
                /\ UNCHANGED <<ocr_lock, exc>>
    /\ UNCHANGED <<module, route, body, reply, appvars, botvars, loopvars>>

BotFormat(r) == BotFormatOf(r, EngineResults)

\* del result; cleanup_memory()
BotCleanup(r) ==
    /\ module = "bot"
    /\ pc[r] = "formatted"
    /\ running = r
    /\ result' = [result EXCEPT ![r] = NoResult]
    /\ pc' = [pc EXCEPT ![r] = "respond"]
    /\ UNCHANGED <<module, route, body, ocr_lock, text_results, exc, reply,
                   appvars, botvars, loopvars>>

\* return response: perform_ocr_on_file hands the dict to runocr.
BotRespond(r) ==
    /\ module = "bot"
    /\ pc[r] = "respond"
    /\ running = r
    /\ ocr_result' = [ocr_result EXCEPT ![r] =
                         [success |-> TRUE, error |-> FALSE,
                          paths |-> crop_paths[r]]]
    /\ ocr_lock' = WithExit(ocr_lock, r, "return")
    /\ pc' = [pc EXCEPT ![r] = "reply"]
    /\ UNCHANGED <<module, route, body, result, text_results, exc, reply,
                   appvars, running, tmpfiles, crop_paths, delivered,
                   cleanup_ran, cropvars, embedvars, loopvars>>

\* except Exception as e: cleanup_memory(); ...; return {"success": False, ...}
\* (An exception the clause did not catch would unwind runocr.)
BotExcept(r) ==
    /\ module = "bot"
    /\ pc[r] = "except"
    /\ running = r
    /\ IF Caught(exc[r])
         THEN /\ ocr_result' = [ocr_result EXCEPT ![r] =
                                   [success |-> FALSE, error |-> TRUE,
                                    paths |-> "absent"]]
              /\ pc' = [pc EXCEPT ![r] = "reply"]
              /\ UNCHANGED reply
         ELSE /\ reply' = [reply EXCEPT ![r] = "uncaught"]
              /\ pc' = [pc EXCEPT ![r] = "finally"]
              /\ UNCHANGED ocr_result
    /\ UNCHANGED <<module, route, body, ocr_lock, result, text_results, exc,
                   appvars, running, tmpfiles, crop_paths, delivered,
                   cleanup_ran, cropvars, embedvars, loopvars>>

\* runocr after perform_ocr_on_file: the failure message, the no-text
\* message, or the embed with its files; then await interaction.followup.send.
\* A ZeroDivisionError of the average would leave the try block through the
\* finally block instead.
runocr_reply(r) ==
    /\ module = "bot"
    /\ pc[r] = "reply"
    /\ running = r
    /\ text_content' = [text_content EXCEPT ![r] =
                          runocr_format(ocr_result[r], text_results[r]).text_content]
    /\ stats' = [stats EXCEPT ![r] =
                   runocr_format(ocr_result[r], text_results[r]).stats]
    /\ IF Raised(runocr_format(ocr_result[r], text_results[r]).stats)
         THEN /\ exc' = [exc EXCEPT ![r] = "divide"]
              /\ pc' = [pc EXCEPT ![r] = "finally"]
              /\ UNCHANGED <<reply, running>>
         ELSE /\ reply' = [reply EXCEPT ![r] =
                             runocr_format(ocr_result[r], text_results[r]).kind]
              /\ exc' = [exc EXCEPT ![r] = "none"]
              /\ pc' = [pc EXCEPT ![r] = "send"]
              /\ running' = 0
    /\ body' = [body EXCEPT ![r] = "none"]
    /\ image_size' = [image_size EXCEPT ![r] = NoSize]
    /\ crop_coords' = [crop_coords EXCEPT ![r] = NoCoords]
    /\ crop_error' = [crop_error EXCEPT ![r] = "none"]
    /\ UNCHANGED <<module, route, ocr_lock, result, text_results, appvars,
                   tmpfiles, crop_paths, ocr_result, delivered, cleanup_ran,
                   loopvars>>

\* The awaited followup.send ends: the message reached the caller, or the send
\* raised.  Inside the try the finally block is next; outside it the handler
\* returns, or the outer except clause sends the error message.  The results
\* and the embed made of them are not read again.
followup_send(r) ==
    /\ module = "bot"
    /\ pc[r] = "send"
    /\ running = 0
    /\ \/ /\ delivered' = [delivered EXCEPT ![r] = TRUE]
          /\ pc' = [pc EXCEPT ![r] = AfterSend(r, TRUE)]
          /\ UNCHANGED exc
       \/ /\ exc' = [exc EXCEPT ![r] = "send"]
          /\ pc' = [pc EXCEPT ![r] = AfterSend(r, FALSE)]
          /\ UNCHANGED delivered
    /\ running' = IF pc'[r] = "finally" THEN r ELSE 0
    /\ text_results' = [text_results EXCEPT ![r] = <<>>]
    /\ text_content' = [text_content EXCEPT ![r] = <<>>]
    /\ stats' = [stats EXCEPT ![r] = NoStats]
    /\ UNCHANGED <<module, route, body, ocr_lock, result, reply, appvars,
                   tmpfiles, crop_paths, ocr_result, cleanup_ran, cropvars,
                   loopvars>>

\* finally: os.unlink(temp_path), and cropped_path and visual_path when
\* ocr_result names them.
runocr_finally(r) ==
    /\ module = "bot"
    /\ pc[r] = "finally"
    /\ running = r
    /\ tmpfiles' = [tmpfiles EXCEPT ![r] = @ \ Unlinked(ocr_result[r])]
    /\ cleanup_ran' = [cleanup_ran EXCEPT ![r] = TRUE]
    /\ pc' = [pc EXCEPT ![r] = IF exc[r] = "none" THEN "done" ELSE "send_error"]
    /\ running' = 0
    /\ UNCHANGED <<module, route, body, ocr_lock, result, text_results, exc,
                   reply, appvars, crop_paths, ocr_result, delivered, cropvars,
                   embedvars, loopvars>>

\* except Exception as e: ...; await interaction.followup.send("An error
\* occurred"), which reaches the caller or fails in turn.
runocr_error(r) ==
    /\ module = "bot"
    /\ pc[r] = "send_error"
    /\ running = 0
    /\ reply' = [reply EXCEPT ![r] = "error"]
    /\ \E ok \in BOOLEAN : delivered' = [delivered EXCEPT ![r] = ok]
    /\ pc' = [pc EXCEPT ![r] = "done"]
    /\ UNCHANGED <<module, route, body, ocr_lock, result, text_results, exc,
                   appvars, running, tmpfiles, crop_paths, ocr_result,
                   cleanup_ran, cropvars, embedvars, loopvars>>

----------------------------------------------------------------------------

\* The thread (the slot) takes the next request: the old one is forgotten.
Recycle(r) ==
    /\ pc[r] = "done"
    /\ pc' = [pc EXCEPT ![r] = "idle"]
    /\ exc' = [exc EXCEPT ![r] = "none"]
    /\ reply' = [reply EXCEPT ![r] = "none"]
    /\ route' = [route EXCEPT ![r] = "none"]
    /\ wrote' = [wrote EXCEPT ![r] = FALSE]
    /\ removes' = [removes EXCEPT ![r] = 0]
    /\ tmpfiles' = [tmpfiles EXCEPT ![r] = {}]
    /\ crop_paths' = [crop_paths EXCEPT ![r] = "none"]
    /\ ocr_result' = [ocr_result EXCEPT ![r] = NoOcrResult]
    /\ delivered' = [delivered EXCEPT ![r] = FALSE]
    /\ cleanup_ran' = [cleanup_ran EXCEPT ![r] = FALSE]
    /\ image_size' = [image_size EXCEPT ![r] = NoSize]
    /\ crop_coords' = [crop_coords EXCEPT ![r] = NoCoords]
    /\ crop_error' = [crop_error EXCEPT ![r] = "none"]
    /\ text_results' = [text_results EXCEPT ![r] = <<>>]
    /\ text_content' = [text_content EXCEPT ![r] = <<>>]
    /\ stats' = [stats EXCEPT ![r] = NoStats]
    /\ UNCHANGED <<module, body, ocr_lock, result, temp_image, running,
                   loopvars>>

----------------------------------------------------------------------------
(* The periodic reclamation loop.                                          *)

\* on_ready: asyncio.create_task(periodic_cleanup()).
on_ready ==
    /\ module = "bot"
    /\ running = 0
    /\ loops < MaxLoops
    /\ loops' = loops + 1
    /\ UNCHANGED <<module, pc, route, body, ocr_lock, result, text_results, exc,
                   reply, appvars, botvars>>

\* `while True: wait(30); cleanup_memory()`: one pass of one loop.  The pass
\* returns, or gc.collect() raises and, nothing catching it, the loop's
\* thread (task) ends.  A task of the bot runs when the event loop is free.
periodic_cleanup ==
    /\ loops > 0
    /\ module = "bot" => running = 0
    /\ \/ UNCHANGED loops
       \/ loops' = loops - 1
    /\ UNCHANGED <<module, pc, route, body, ocr_lock, result, text_results, exc,
                   reply, appvars, botvars>>

----------------------------------------------------------------------------

Init ==
    /\ module \in {"app", "bot"}
    /\ pc = [r \in Slots |-> "idle"]
    /\ route = [r \in Slots |-> "none"]
    /\ body = [r \in Slots |-> "none"]
    /\ ocr_lock = 0
    /\ result = [r \in Slots |-> NoResult]
    /\ text_results = [r \in Slots |-> <<>>]
    /\ exc = [r \in Slots |-> "none"]
    /\ reply = [r \in Slots |-> "none"]
    /\ temp_image = NoTempImage
    /\ wrote = [r \in Slots |-> FALSE]
    /\ removes = [r \in Slots |-> 0]
    /\ running = 0
    /\ tmpfiles = [r \in Slots |-> {}]
    /\ crop_paths = [r \in Slots |-> "none"]
    /\ ocr_result = [r \in Slots |-> NoOcrResult]
    /\ delivered = [r \in Slots |-> FALSE]
    /\ cleanup_ran = [r \in Slots |-> FALSE]
    /\ image_size = [r \in Slots |-> NoSize]
    /\ crop_coords = [r \in Slots |-> NoCoords]
    /\ crop_error = [r \in Slots |-> "none"]
    /\ text_content = [r \in Slots |-> <<>>]
    /\ stats = [r \in Slots |-> NoStats]
    \* app.py starts its cleanup thread at module load.
    /\ loops = IF module = "app" THEN 1 ELSE 0

Next ==
    \/ \E r \in Reqs : AppReceive(r)
    \/ \E r \in Reqs : AppAcquire(r)
    \/ \E r \in Reqs : perform_ocr_read(r)
    \/ \E r \in Reqs : perform_ocr_materialize(r)
    \/ \E r \in Reqs : ocr_demo_materialize(r)
    \/ \E r \in Reqs : AppEngineCall(r)
    \/ \E r \in Reqs : AppEngineReturn(r)
    \/ \E r \in Reqs : RemoveTemp(r)
    \/ \E r \in Reqs : AppFormat(r)
    \/ \E r \in Reqs : AppCleanup(r)
    \/ \E r \in Reqs : AppRespond(r)
    \/ \E r \in Reqs : AppExcept(r)
    \/ \E r \in Reqs : runocr_start(r)
    \/ \E r \in Reqs : runocr_source(r)
    \/ \E r \in Reqs : download_image(r)
    \/ \E r \in Reqs : crop_image_to_target_region(r)
    \/ \E r \in Reqs : BotAcquire(r)
    \/ \E r \in Reqs : BotEngineCall(r)
    \/ \E r \in Reqs : BotEngineReturn(r)
    \/ \E r \in Reqs : BotFormat(r)
    \/ \E r \in Reqs : BotCleanup(r)
    \/ \E r \in Reqs : BotRespond(r)
    \/ \E r \in Reqs : BotExcept(r)
    \/ \E r \in Reqs : runocr_reply(r)
    \/ \E r \in Reqs : followup_send(r)
    \/ \E r \in Reqs : runocr_finally(r)
    \/ \E r \in Reqs : runocr_error(r)
    \/ \E r \in Reqs : Recycle(r)
    \/ on_ready
    \/ periodic_cleanup

Spec == Init /\ [][Next]_vars

\* The engine outputs that tell the ways through a handler apart: nothing
\* detected, a line that is formatted, a line at which formatting raises.
SlotResults ==
    {[kind |-> "none", lines |-> <<>>],
     [kind |-> "page", lines |-> <<GoodLine>>],
     [kind |-> "page", lines |-> <<BadLine>>]}

\* What request r's handler does once the request is in (everything but the
\* arrival of a request and the reuse of its slot).
Handler(r) ==
    \/ AppAcquire(r) \/ perform_ocr_read(r) \/ perform_ocr_materialize(r)
    \/ ocr_demo_materialize(r) \/ AppEngineCall(r) \/ AppEngineReturn(r)
    \/ RemoveTemp(r) \/ AppFormatOf(r, SlotResults) \/ AppCleanup(r)
    \/ AppRespond(r) \/ AppExcept(r)
    \/ runocr_source(r) \/ download_image(r) \/ crop_image_to_target_region(r)
    \/ BotAcquire(r) \/ BotEngineCall(r) \/ BotEngineReturn(r)
    \/ BotFormatOf(r, SlotResults) \/ BotCleanup(r) \/ BotRespond(r)
    \/ BotExcept(r) \/ runocr_reply(r) \/ followup_send(r) \/ runocr_finally(r)
    \/ runocr_error(r)

\* The requests' contention for the slot: the handlers as in Next, with the
\* engine's outputs drawn from SlotResults and the reclamation loops left out
\* (they take no part in it).
SlotNext ==
    \/ \E r \in Reqs : AppReceive(r)
    \/ \E r \in Reqs : runocr_start(r)
    \/ \E r \in Reqs : Handler(r)
    \/ \E r \in Reqs : Recycle(r)

\* A fair scheduler and a fair lock: a handler that can take a step again and
\* again does take one; in particular every engine call returns, and a
\* request waiting for ocr_lock is not passed over for ever.
FairSpec ==
    Init /\ [][SlotNext]_vars /\ \A r \in Slots : SF_vars(Handler(r))

----------------------------------------------------------------------------
(* crop_image_to_target_region as a function of the image it is given.     *)

\* A /runocr request has downloaded a file, an image of any size up to the
\* bounds or no image at all, and is about to crop it.
CropInit ==
    /\ module = "bot"
    /\ pc = [r \in Slots |-> IF r = 1 THEN "crop" ELSE "idle"]
    /\ route = [r \in Slots |-> IF r = 1 THEN "runocr" ELSE "none"]
    /\ \E b \in {"image", "undecodable"} :
          /\ body = [r \in Slots |-> IF r = 1 THEN b ELSE "none"]
          /\ \E sz \in (IF b = "image" THEN AllSizes ELSE {NoSize}) :
                image_size = [r \in Slots |-> IF r = 1 THEN sz ELSE NoSize]
    /\ ocr_lock = 0
    /\ result = [r \in Slots |-> NoResult]
    /\ text_results = [r \in Slots |-> <<>>]
    /\ exc = [r \in Slots |-> "none"]
    /\ reply = [r \in Slots |-> "none"]
    /\ temp_image = NoTempImage
    /\ wrote = [r \in Slots |-> FALSE]
    /\ removes = [r \in Slots |-> 0]
    /\ running = 1
    /\ tmpfiles = [r \in Slots |-> IF r = 1 THEN {"temp"} ELSE {}]
    /\ crop_paths = [r \in Slots |-> "none"]
    /\ ocr_result = [r \in Slots |-> NoOcrResult]
    /\ delivered = [r \in Slots |-> FALSE]
    /\ cleanup_ran = [r \in Slots |-> FALSE]
    /\ crop_coords = [r \in Slots |-> NoCoords]
    /\ crop_error = [r \in Slots |-> "none"]
    /\ text_content = [r \in Slots |-> <<>>]
    /\ stats = [r \in Slots |-> NoStats]
    /\ loops = 0

CropNext == \E r \in Reqs : crop_image_to_target_region(r)

CropSpec == CropInit /\ [][CropNext]_vars

----------------------------------------------------------------------------
(* The formatting of runocr as a function of what perform_ocr_on_file      *)
(* returned.                                                               *)

\* A text of n characters.
LongText(n) == IF n = 0 THEN <<>> ELSE <<Run("a", n)>>

\* The results perform_ocr_on_file hands over: none; one line whose text has
\* any length up to the bound, or is blank; two lines of differing
\* confidence, the first of any length up to the bound.
FormatInputs ==
    {<<>>, <<[text |-> <<Run(" ", 1)>>, confidence |-> 90]>>}
        \cup {<<[text |-> LongText(n), confidence |-> 90]>> : n \in 0..MaxTextLen}
        \cup {<<[text |-> LongText(n), confidence |-> 90],
                [text |-> <<Run("A", 1)>>, confidence |-> 50]>> : n \in 0..MaxTextLen}

\* perform_ocr_on_file has returned to runocr, with a failure or with results.
FormatInit ==
    /\ module = "bot"
    /\ pc = [r \in Slots |-> IF r = 1 THEN "reply" ELSE "idle"]
    /\ route = [r \in Slots |-> IF r = 1 THEN "runocr" ELSE "none"]
    /\ body = [r \in Slots |-> IF r = 1 THEN "image" ELSE "none"]
    /\ \/ /\ ocr_result = [r \in Slots |->
                IF r = 1 THEN [success |-> FALSE, error |-> TRUE, paths |-> "absent"]
                         ELSE NoOcrResult]
          /\ text_results = [r \in Slots |-> <<>>]
          /\ exc = [r \in Slots |-> IF r = 1 THEN "engine" ELSE "none"]
       \/ /\ ocr_result = [r \in Slots |->
                IF r = 1 THEN [success |-> TRUE, error |-> FALSE, paths |-> "derived"]
                         ELSE NoOcrResult]
          /\ \E results \in FormatInputs :
                text_results = [r \in Slots |-> IF r = 1 THEN results ELSE <<>>]
          /\ exc = [r \in Slots |-> "none"]
    /\ ocr_lock = 0
    /\ result = [r \in Slots |-> NoResult]
    /\ reply = [r \in Slots |-> "none"]
    /\ temp_image = NoTempImage
    /\ wrote = [r \in Slots |-> FALSE]
    /\ removes = [r \in Slots |-> 0]
    /\ running = 1
    /\ tmpfiles = [r \in Slots |-> IF r = 1 THEN {"temp", "cropped", "visual"} ELSE {}]
    /\ crop_paths = [r \in Slots |-> IF r = 1 THEN "derived" ELSE "none"]
    /\ delivered = [r \in Slots |-> FALSE]
    /\ cleanup_ran = [r \in Slots |-> FALSE]
    /\ image_size = [r \in Slots |-> NoSize]
    /\ crop_coords = [r \in Slots |-> IF r = 1 THEN FallbackCoords ELSE NoCoords]
    /\ crop_error = [r \in Slots |-> "none"]
    /\ text_content = [r \in Slots |-> <<>>]
    /\ stats = [r \in Slots |-> NoStats]
    /\ loops = 0

FormatNext == \E r \in Reqs : runocr_reply(r)

FormatSpec == FormatInit /\ [][FormatNext]_vars

----------------------------------------------------------------------------
(* The claims.                                                             *)

\* C1: at most one call of ocr.ocr is in progress at any time.
MutualExclusion == Cardinality({r \in Slots : pc[r] = "in_engine"}) <= 1

\* C1 witness: one request is inside the engine while another waits for the lock.
MutualExclusionWitness ==
    \E r, q \in Slots : pc[r] = "in_engine" /\ pc[q] = "wait_lock"

\* Where a handler is between entering and leaving `with ocr_lock:`.
InWith == {"locked", "materialize", "call_engine", "in_engine", "remove_temp",
           "format", "formatted", "respond"}

\* C2: a request holds ocr_lock only inside its with block: once the block is
\* left, by a return or by an exception, the lock is not held by it.
SlotReleased == \A r \in Slots : ocr_lock = r => pc[r] \in InWith

\* C2 witness: a request that took the lock has ended through an exception of
\* the engine, and another one has taken the lock after it.
SlotReleasedWitness ==
    \E r, q \in Slots :
        pc[r] = "done" /\ exc[r] = "engine" /\ ocr_lock = q /\ q # r

TempRemovedOnce ==
    \A r \in Slots : (pc[r] = "done" /\ wrote[r]) => removes[r] = 1

\* C5: once runocr has finished, no temporary file of the request remains.
NoTempFilesLeft ==
    \A r \in Slots : (module = "bot" /\ pc[r] = "done") => tmpfiles[r] = {}

\* A line of exactly the shape (bbox, (text, confidence)).
WellFormed(line) == line.len = 2 /\ line.snd = "pair"

RECURSIVE WellFormedEntries(_)
WellFormedEntries(ls) ==
    IF ls = <<>> THEN <<>>
    ELSE IF WellFormed(Head(ls))
           THEN <<[text |-> Head(ls).text, confidence |-> Head(ls).conf]>>
                    \o WellFormedEntries(Tail(ls))
    ELSE WellFormedEntries(Tail(ls))

\* C6: a malformed line never fails the call and never appears in the
\* results: the results are the well-formed lines, in order.
MalformedSkipped ==
    \A r \in Slots :
        /\ exc[r] # "format"
        /\ pc[r] = "formatted" =>
              text_results[r] = WellFormedEntries(result[r].lines)

\* C7: a request whose image cannot be materialized neither holds ocr_lock
\* nor calls the engine.
GateNotEngaged ==
    \A r \in Slots :
        body[r] \in {"missing", "undecodable"} =>
            ocr_lock # r /\ pc[r] \notin {"call_engine", "in_engine"}

\* C8 (as claimed): the outcome reaches the caller only after the request's
\* cleanup step has run.
OutcomeAfterCleanup ==
    \A r \in Slots : (delivered[r] /\ InTry(r)) => cleanup_ran[r]

\* C8 (amended): in the bot the outcome is handed to followup.send first and
\* the finally block runs afterwards, before the handler ends; in app.py the
\* temp file of a base64 request has been removed when a success response is
\* returned.
CleanupBeforeHandlerEnds ==
    \A r \in Slots :
        /\ (InTry(r) /\ pc[r] \in {"send_error", "done"}) => cleanup_ran[r]
        /\ cleanup_ran[r] => (delivered[r] \/ exc[r] = "send")
        /\ (pc[r] = "done" /\ reply[r] = "200" /\ wrote[r]) =>
              removes[r] = 1

\* C8 witness: the reply of a request with temporary files has reached the
\* caller and the finally block has not run yet.
CleanupBeforeHandlerEndsWitness ==
    \E r \in Slots :
        pc[r] = "finally" /\ delivered[r] /\ ~cleanup_ran[r]
            /\ tmpfiles[r] # {}

LoopNeverStops == [][loops' >= loops]_vars

\* The crop has returned to perform_ocr_on_file.
Cropped(r) == crop_coords[r] # NoCoords

\* The file of request r is an image, of the size image_size[r].
Sized(r) == image_size[r] # NoSize

\* C11: the coordinates crop_image_to_target_region returns, the fallback
\* ones included, satisfy 0 <= x1 <= x2 <= width and 0 <= y1 <= y2 <= height.
CropWithinImage ==
    \A r \in Slots :
        (Cropped(r) /\ Sized(r)) =>
            /\ 0 <= crop_coords[r][1]
            /\ crop_coords[r][1] <= crop_coords[r][3]
            /\ crop_coords[r][3] <= image_size[r][1]
            /\ 0 <= crop_coords[r][2]
            /\ crop_coords[r][2] <= crop_coords[r][4]
            /\ crop_coords[r][4] <= image_size[r][2]

\* C11 witness: the region of an image narrower than end_x and shorter than
\* start_y has been computed, both clamps at work.
CropWithinImageWitness ==
    \E r \in Slots :
        /\ Cropped(r) /\ Sized(r) /\ crop_error[r] = "none"
        /\ image_size[r][1] < end_x /\ image_size[r][1] > start_x
        /\ image_size[r][2] < start_y

\* C12: for an image taller than start_y the computed region has top edge
\* start_y and bottom edge the image's height; its left and right edges are
\* start_x and end_x when the image is at least end_x wide, and an edge differs
\* from its constant only by being the image's width, which is then smaller.
NominalRegion ==
    \A r \in Slots :
        (/\ Cropped(r) /\ Sized(r) /\ crop_error[r] = "none"
         /\ image_size[r][2] > start_y) =>
            /\ image_size[r][1] >= end_x =>
                  crop_coords[r] = <<start_x, start_y, end_x, image_size[r][2]>>
            /\ crop_coords[r][1] =
                  (IF image_size[r][1] < start_x THEN image_size[r][1] ELSE start_x)
            /\ crop_coords[r][3] =
                  (IF image_size[r][1] < end_x THEN image_size[r][1] ELSE end_x)
            /\ crop_coords[r][2] = start_y
            /\ crop_coords[r][4] = image_size[r][2]

\* C12 witness: the region of an image wider than end_x and taller than
\* start_y has been computed.
NominalRegionWitness ==
    \E r \in Slots :
        /\ Cropped(r) /\ Sized(r) /\ crop_error[r] = "none"
        /\ image_size[r][1] > end_x /\ image_size[r][2] > start_y

\* C13: for an image no taller than start_y the region is empty and the
\* engine is run on the cropped, empty region, not on the image as downloaded
\* (and so finds no lines).
EmptyRegionInferred ==
    \A r \in Slots :
        (module = "bot" /\ Sized(r) /\ image_size[r][2] <= start_y) =>
            /\ Cropped(r) => crop_coords[r][4] <= crop_coords[r][2]
            /\ pc[r] \in {"call_engine", "in_engine"} =>
                  /\ crop_paths[r] = "derived"
                  /\ crop_coords[r]
                       = CropCoords(image_size[r][1], image_size[r][2])

\* runocr has built the embed of request r.
Embedded(r) == reply[r] = "embed"

\* C14 (as claimed): a text longer than 3500 characters is shown in at most
\* 3503, beginning with its first 3500; a text of at most 3500 is unchanged.
TruncatedWithin3503 ==
    \A r \in Slots :
        Embedded(r) =>
            IF TextLen(FullText(text_results[r])) > 3500
              THEN /\ TextLen(text_content[r]) <= 3503
                   /\ Take(text_content[r], 3500)
                         = Take(FullText(text_results[r]), 3500)
              ELSE text_content[r] = FullText(text_results[r])

\* C14 (amended): a text longer than text_limit is shown as its first
\* text_limit characters followed by the 22 characters of the marker, 3522
\* characters in all; a text of at most text_limit is unchanged.
TruncatedWithinMarker ==
    \A r \in Slots :
        Embedded(r) =>
            IF TextLen(FullText(text_results[r])) > text_limit
              THEN /\ TextLen(text_content[r]) = text_limit + 22
                   /\ Take(text_content[r], text_limit)
                         = Take(FullText(text_results[r]), text_limit)
                   /\ text_content[r]
                         = Concat(Take(text_content[r], text_limit), Marker)
              ELSE text_content[r] = FullText(text_results[r])

\* C14 witness: the embed of a text of 5000 characters has been built.
TruncatedWithinMarkerWitness ==
    \E r \in Slots :
        Embedded(r) /\ TextLen(FullText(text_results[r])) = 5000

StatsOnlyWithLines ==
    \A r \in Slots :
        /\ ~Raised(stats[r])
        /\ exc[r] # "divide"
        /\ text_results[r] = <<>> => stats[r] = NoStats
        /\ stats[r] # NoStats =>
              stats[r] = <<[lines |-> Len(text_results[r]),
                            avg |-> [num |-> SumConfidence(text_results[r]),
                                     den |-> Len(text_results[r]),
                                     raised |-> FALSE]]>>

\* C16 witness: a result with zero lines has gone through the formatter.
StatsOnlyWithLinesWitness ==
    \E r \in Slots :
        /\ pc[r] = "send" /\ ocr_result[r].success /\ text_results[r] = <<>>
        /\ stats[r] = NoStats

\* C17: cleanup_memory never runs while ocr_lock is held: the request that
\* runs its reclamation pass does not hold the lock.
CleanupAfterRelease ==
    [][\A r \in Slots :
          (pc[r] = "formatted" /\ pc'[r] = "respond") => ocr_lock # r]_vars

\* C18: the steps before the engine call never require the slot: a request
\* that reads its body, checks its path, decodes and saves its image or crops
\* it does not hold ocr_lock.
MaterializeWithoutSlot ==
    \A r \in Slots :
        pc[r] \in {"locked", "materialize", "download", "crop"} => ocr_lock # r

\* C19: when the drawing or the saving of the visualization raises after the
\* image was cropped, the engine is still run on the cropped file and the
\* coordinates reported are those of the crop.
VisualizationNonFatal ==
    \A r \in Slots :
        (module = "bot" /\ crop_error[r] \in {"draw", "save_visual"}) =>
            /\ pc[r] \in {"call_engine", "in_engine"} => crop_paths[r] = "derived"
            /\ Cropped(r) =>
                  crop_coords[r] = CropCoords(image_size[r][1], image_size[r][2])

\* C20: from a base64 request's write of /tmp/temp_image.png to the end of
\* its engine call the file is there and holds that request's image: no
\* other request has written or removed it.
TempImageNotShared ==
    \A r \in Slots :
        (module = "app" /\ body[r] = "b64"
            /\ pc[r] \in {"call_engine", "in_engine"}) =>
            temp_image = [present |-> TRUE, of |-> r]

\* C20 witness: the engine reads the file of one base64 request while another
\* POST /ocr request is waiting to be served.
TempImageNotSharedWitness ==
    \E r, q \in Slots :
        /\ r # q /\ pc[r] = "in_engine" /\ body[r] = "b64"
        /\ pc[q] = "wait_lock" /\ route[q] = "ocr"

\* C21: at every moment at most one periodic reclamation loop is running in
\* the process, however many times on_ready fires.
AtMostOneLoop == loops <= 1

====
